---- MODULE Spec2Model ----
(***************************************************************************)
(* A model of the WavPack decoder plugin of MPD                            *)
(* (src/doc/meson.build, lines 140-659):                                   *)
(*   - the WavpackInput adapter and the WavpackStreamReader callbacks      *)
(*     that present an InputStream to libwavpack (specification SpecInput),*)
(*   - the decode loop wavpack_decode (specification SpecDecode).          *)
(* The InputStream, the DecoderClient and libwavpack are collaborators     *)
(* whose code is not part of the plugin; they are modelled as              *)
(* nondeterministic environments.                                          *)
(***************************************************************************)
EXTENDS Integers, Sequences, FiniteSets, TLC

VARIABLES
    \* ---- the InputStream behind the adapter
    S,            \* the bytes the stream holds
    known_size,   \* InputStream::KnownSize()
    seekable,     \* InputStream::IsSeekable()
    offset,       \* InputStream::GetOffset(), an offset_type (64 bits)
    \* ---- struct WavpackInput
    last_byte,    \* the pushed back byte, or EOF
    \* ---- WavpackInput::ReadBytes in progress
    pc,           \* "idle": no callback is running; "loop": in the read loop
    bcount,       \* size_t bcount (64 bits)
    i,            \* int32_t i
    buf,          \* the bytes written through the caller's data pointer
    \* ---- observation of the callbacks
    call,         \* the running or the last finished callback
    out,          \* the bytes the ReadBytes calls returned so far
    clean,        \* no seek and no push back happened so far
    nops,         \* number of callbacks started
    \* ---- wavpack_decode
    dpc,          \* position in wavpack_decode
    can_seek,     \* parameter can_seek
    fmt,          \* what libwavpack reports about the file
    batches,      \* the sample counts WavpackUnpackSamples will return
    cmd,          \* DecoderCommand cmd
    log,          \* the calls made to the DecoderClient and to libwavpack
    \* ---- the entry points wavpack_streamdecode, _filedecode, _scan_file
    env,          \* the entry point called and what it finds
    spc,          \* position in the entry point
    obs,          \* what the entry point did to libwavpack and the handler
    \* ---- parsePath (src/src/utils.c)
    path,         \* the caller's string, a char array that ends with 0
    penv,         \* the users getpwnam knows, the configured user
    pres,         \* the call of parsePath: the string before, the result
    \* ---- UPnPDirObject
    obj,          \* the fields of the object
    uop           \* the last operation on the object

inputVars == <<S, known_size, seekable, offset, last_byte, pc, bcount, i, buf,
               call, out, clean, nops>>
decodeVars == <<dpc, can_seek, fmt, batches, cmd, log>>
sessionVars == <<env, spc, obs>>
pathVars == <<path, penv, pres>>
upnpVars == <<obj, uop>>
vars == <<S, known_size, seekable, offset, last_byte, pc, bcount, i, buf,
          call, out, clean, nops, dpc, can_seek, fmt, batches, cmd, log,
          env, spc, obs, path, penv, pres, obj, uop>>
\* what a callback of the adapter leaves alone
notInputVars == <<decodeVars, sessionVars, pathVars, upnpVars>>
\* what wavpack_decode leaves alone
notDecodeVars == <<inputVars, sessionVars, pathVars, upnpVars>>

-----------------------------------------------------------------------------
(* Bounds of the model *)

\* the longest stream content
MaxLen == 2
\* the number of callbacks libwavpack issues in one run
MaxOps == 3
\* the longest list of sample batches libwavpack delivers
MaxBatches == 3

-----------------------------------------------------------------------------
(* Program constants *)

EOF == -1
SEEK_SET == 0
SEEK_CUR == 1
SEEK_END == 2

-----------------------------------------------------------------------------
(* 64 bit unsigned integers (offset_type, size_t), as four 16 bit limbs,   *)
(* least significant first.  uint32_t values are those with limbs 3 and 4  *)
(* zero.                                                                   *)

Limb == 2^16

\* the 64 bit value of a natural number below 2^31
U64(n) == <<n % Limb, (n \div Limb) % Limb, 0, 0>>

\* addition modulo 2^64
U64Add(a, b) ==
    LET s1 == a[1] + b[1]
        s2 == a[2] + b[2] + (s1 \div Limb)
        s3 == a[3] + b[3] + (s2 \div Limb)
        s4 == a[4] + b[4] + (s3 \div Limb)
    IN  <<s1 % Limb, s2 % Limb, s3 % Limb, s4 % Limb>>

\* subtraction modulo 2^64
U64Sub(a, b) ==
    LET nb == <<Limb - 1 - b[1], Limb - 1 - b[2], Limb - 1 - b[3], Limb - 1 - b[4]>>
    IN  U64Add(U64Add(a, nb), U64(1))

\* conversion of an int32_t to a 64 bit unsigned type (sign extension)
FromInt32(d) == IF d >= 0 THEN U64(d) ELSE U64Sub(U64(0), U64(-d))

\* conversion of a 64 bit unsigned value to uint32_t
ToUint32(a) == <<a[1], a[2], 0, 0>>

\* the value fits one limb; then it is the natural number a[1]
IsSmall(a) == a[2] = 0 /\ a[3] = 0 /\ a[4] = 0

Min(a, b) == IF a < b THEN a ELSE b

-----------------------------------------------------------------------------
(* The InputStream (collaborator) *)

\* InputStream::GetSize()
GetSize == U64(Len(S))

\* the number of bytes between the offset and the end of the stream
Remaining == IF IsSmall(offset) /\ offset[1] < Len(S) THEN Len(S) - offset[1] ELSE 0

\* decoder_read(client, is, buf, n): the byte counts it can return.  It
\* blocks until at least one byte arrived and returns 0 at the end of the
\* stream, on error and when a decoder command arrived.
decoder_read(n) ==
    {0} \cup (1 .. (IF IsSmall(n) THEN Min(n[1], Remaining) ELSE Remaining))

\* InputStream::LockSeek(): it either succeeds, which takes a seekable
\* stream, or throws std::runtime_error
LockSeek == {"runtime_error"} \cup (IF seekable THEN {"ok"} ELSE {})

-----------------------------------------------------------------------------
(* Inputs libwavpack passes to the callbacks *)

\* the stream contents: the streams of at most MaxLen bytes that hold
\* pairwise different bytes, so that a byte tells its place in the stream
Contents == {[k \in 1..n |-> 64 + k] : n \in 0..MaxLen}
\* the values of bcount
Counts == 0 .. (MaxLen + 1)
\* the values of c in push_back_byte: bytes, and ints that are no byte
PushValues == {0, 255, 256, EOF}
\* the values of pos in set_pos_abs (uint32_t)
Positions == {U64(0), U64(1), <<Limb - 1, Limb - 1, 0, 0>>}
\* the values of delta in set_pos_rel (int32_t)
Deltas == {-1, 0, 1, 2147483647}
\* the values of mode in set_pos_rel
Modes == {SEEK_SET, SEEK_CUR, SEEK_END, 3}

-----------------------------------------------------------------------------
(* Observation of a callback *)

\* the record of a callback that starts now
NewCall(op, arg) ==
    [op |-> op, arg |-> arg, status |-> "running", ret |-> 0,
     offset0 |-> offset, last_byte0 |-> last_byte,
     results |-> <<>>, seeks |-> <<>>]

\* the record of a callback that returns r
Returned(c, r) == [c EXCEPT !.status = "returned", !.ret = r]

\* the record of a callback that an exception leaves
Thrown(c) == [c EXCEPT !.status = "thrown"]

\* catch (const std::runtime_error &): the exceptions it catches
Caught(r) == r = "runtime_error"

\* a call of is.LockSeek(to) and how it ended
Sought(to, r) == [to |-> to, r |-> r]

CanStart == pc = "idle" /\ nops < MaxOps

-----------------------------------------------------------------------------
(* WavpackInput::ReadBytes, called through wavpack_input_read_bytes *)

\* ReadBytesBegin without "--bcount" for the replayed byte
ReadBytesBegin_NoDecrement ==
    \E count \in Counts :
        /\ CanStart
        /\ nops' = nops + 1
        /\ call' = NewCall("read_bytes", count)
        /\ IF last_byte # EOF
           THEN /\ buf' = <<last_byte % 256>>
                /\ last_byte' = EOF
                /\ i' = 1
           ELSE /\ buf' = <<>>
                /\ i' = 0
                /\ UNCHANGED last_byte
        /\ bcount' = FromInt32(count)
        /\ pc' = "loop"
        /\ UNCHANGED <<S, known_size, seekable, offset, out, clean>>
        /\ UNCHANGED notInputVars

\* entry of ReadBytes up to the loop: replays the pushed back byte
ReadBytesBegin ==
    \E count \in Counts :
        /\ CanStart
        /\ nops' = nops + 1
        /\ call' = NewCall("read_bytes", count)
        /\ IF last_byte # EOF
           THEN /\ buf' = <<last_byte % 256>>
                /\ last_byte' = EOF
                /\ bcount' = U64Sub(FromInt32(count), U64(1))
                /\ i' = 1
           ELSE /\ buf' = <<>>
                /\ bcount' = FromInt32(count)
                /\ i' = 0
                /\ UNCHANGED last_byte
        /\ pc' = "loop"
        /\ UNCHANGED <<S, known_size, seekable, offset, out, clean>>
        /\ UNCHANGED notInputVars

\* what the caller has received when ReadBytes returns r
Delivered(r) == IF clean THEN out \o SubSeq(buf, 1, r) ELSE <<>>

\* ReadBytesIter without the loop: the first read is returned as it is
ReadBytesIter_PartialReturn ==
    /\ pc = "loop"
    /\ bcount # U64(0)
    /\ \E nbytes \in decoder_read(bcount) :
        /\ pc' = "idle"
        /\ call' = Returned([call EXCEPT !.results = Append(@, nbytes)], i + nbytes)
        /\ buf' = buf \o SubSeq(S, offset[1] + 1, offset[1] + nbytes)
        /\ out' = IF clean THEN out \o SubSeq(buf', 1, i + nbytes) ELSE <<>>
        /\ offset' = U64Add(offset, U64(nbytes))
        /\ i' = i + nbytes
        /\ bcount' = U64Sub(bcount, U64(nbytes))
    /\ UNCHANGED <<S, known_size, seekable, last_byte, clean, nops>>
    /\ UNCHANGED notInputVars

\* ReadBytesIter with "i = nbytes" in place of "i += nbytes"
ReadBytesIter_CountLast ==
    /\ pc = "loop"
    /\ bcount # U64(0)
    /\ \E nbytes \in decoder_read(bcount) :
        IF nbytes = 0
        THEN /\ pc' = "idle"
             /\ call' = Returned([call EXCEPT !.results = Append(@, nbytes)], i)
             /\ out' = Delivered(i)
             /\ UNCHANGED <<offset, bcount, i, buf>>
        ELSE /\ call' = [call EXCEPT !.results = Append(@, nbytes)]
             /\ buf' = buf \o SubSeq(S, offset[1] + 1, offset[1] + nbytes)
             /\ offset' = U64Add(offset, U64(nbytes))
             /\ i' = nbytes
             /\ bcount' = U64Sub(bcount, U64(nbytes))
             /\ UNCHANGED <<pc, out>>
    /\ UNCHANGED <<S, known_size, seekable, last_byte, clean, nops>>
    /\ UNCHANGED notInputVars

\* one iteration of the loop of ReadBytes; a read of 0 bytes leaves the
\* loop and returns i
ReadBytesIter ==
    /\ pc = "loop"
    /\ bcount # U64(0)
    /\ \E nbytes \in decoder_read(bcount) :
        IF nbytes = 0
        THEN /\ pc' = "idle"
             /\ call' = Returned([call EXCEPT !.results = Append(@, nbytes)], i)
             /\ out' = Delivered(i)
             /\ UNCHANGED <<offset, bcount, i, buf>>
        ELSE /\ call' = [call EXCEPT !.results = Append(@, nbytes)]
             /\ buf' = buf \o SubSeq(S, offset[1] + 1, offset[1] + nbytes)
             /\ offset' = U64Add(offset, U64(nbytes))
             /\ i' = i + nbytes
             /\ bcount' = U64Sub(bcount, U64(nbytes))
             /\ UNCHANGED <<pc, out>>
    /\ UNCHANGED <<S, known_size, seekable, last_byte, clean, nops>>
    /\ UNCHANGED notInputVars

\* the loop of ReadBytes ends because the buffer is full
ReadBytesReturn ==
    /\ pc = "loop"
    /\ bcount = U64(0)
    /\ pc' = "idle"
    /\ call' = Returned(call, i)
    /\ out' = Delivered(i)
    /\ UNCHANGED <<S, known_size, seekable, offset, last_byte, bcount, i, buf,
                   clean, nops>>
    /\ UNCHANGED notInputVars

-----------------------------------------------------------------------------
(* The other callbacks of mpd_is_reader *)

\* the value wavpack_input_get_pos returns: is.GetOffset() as a uint32_t
GetPosition == ToUint32(offset)

wavpack_input_get_pos ==
    /\ CanStart
    /\ nops' = nops + 1
    /\ call' = Returned(NewCall("get_pos", 0), GetPosition)
    /\ UNCHANGED <<S, known_size, seekable, offset, last_byte, pc, bcount, i,
                   buf, out, clean>>
    /\ UNCHANGED notInputVars

\* wavpack_input_set_pos_abs that empties last_byte when the seek succeeds
wavpack_input_set_pos_abs_DropPushBack ==
    \E pos \in Positions, r \in LockSeek :
        /\ CanStart
        /\ nops' = nops + 1
        /\ IF r = "ok"
           THEN /\ offset' = pos
                /\ last_byte' = EOF
                /\ call' = Returned([NewCall("set_pos_abs", pos)
                                        EXCEPT !.seeks = <<Sought(pos, r)>>], 0)
           ELSE /\ offset' = offset
                /\ last_byte' = last_byte
                /\ call' = IF Caught(r)
                           THEN Returned([NewCall("set_pos_abs", pos)
                                             EXCEPT !.seeks = <<Sought(pos, r)>>], -1)
                           ELSE Thrown([NewCall("set_pos_abs", pos)
                                           EXCEPT !.seeks = <<Sought(pos, r)>>])
        /\ clean' = FALSE
        /\ out' = <<>>
        /\ UNCHANGED <<S, known_size, seekable, pc, bcount, i, buf>>
        /\ UNCHANGED notInputVars

\* wavpack_input_set_pos_abs whose catch block returns 0 as well
wavpack_input_set_pos_abs_IgnoreError ==
    \E pos \in Positions, r \in LockSeek :
        /\ CanStart
        /\ nops' = nops + 1
        /\ offset' = IF r = "ok" THEN pos ELSE offset
        /\ call' = Returned([NewCall("set_pos_abs", pos)
                                EXCEPT !.seeks = <<Sought(pos, r)>>], 0)
        /\ clean' = FALSE
        /\ out' = <<>>
        /\ UNCHANGED <<S, known_size, seekable, last_byte, pc, bcount, i, buf>>
        /\ UNCHANGED notInputVars

wavpack_input_set_pos_abs ==
    \E pos \in Positions, r \in LockSeek :
        /\ CanStart
        /\ nops' = nops + 1
        /\ IF r = "ok"
           THEN /\ offset' = pos
                /\ call' = Returned([NewCall("set_pos_abs", pos)
                                        EXCEPT !.seeks = <<Sought(pos, r)>>], 0)
           ELSE /\ offset' = offset
                /\ call' = IF Caught(r)
                           THEN Returned([NewCall("set_pos_abs", pos)
                                             EXCEPT !.seeks = <<Sought(pos, r)>>], -1)
                           ELSE Thrown([NewCall("set_pos_abs", pos)
                                           EXCEPT !.seeks = <<Sought(pos, r)>>])
        /\ clean' = FALSE
        /\ out' = <<>>
        /\ UNCHANGED <<S, known_size, seekable, last_byte, pc, bcount, i, buf>>
        /\ UNCHANGED notInputVars

\* RelTarget without the KnownSize() test of SEEK_END
RelTarget_NoSizeCheck(delta, mode) ==
    CASE mode = SEEK_SET -> FromInt32(delta)
      [] mode = SEEK_CUR -> U64Add(FromInt32(delta), offset)
      [] mode = SEEK_END -> U64Add(FromInt32(delta), GetSize)
      [] OTHER -> <<>>

\* RelTarget whose SEEK_CUR case does not add the current offset
RelTarget_CurFromStart(delta, mode) ==
    CASE mode = SEEK_SET -> FromInt32(delta)
      [] mode = SEEK_CUR -> FromInt32(delta)
      [] mode = SEEK_END -> IF ~known_size THEN <<>>
                            ELSE U64Add(FromInt32(delta), GetSize)
      [] OTHER -> <<>>

\* the switch of wavpack_input_set_pos_rel: the offset to seek to, or
\* <<>> when the function returns -1 without seeking
RelTarget(delta, mode) ==
    CASE mode = SEEK_SET -> FromInt32(delta)
      [] mode = SEEK_CUR -> U64Add(FromInt32(delta), offset)
      [] mode = SEEK_END -> IF ~known_size THEN <<>>
                            ELSE U64Add(FromInt32(delta), GetSize)
      [] OTHER -> <<>>

wavpack_input_set_pos_rel ==
    \E delta \in Deltas, mode \in Modes, r \in LockSeek :
        LET target == RelTarget(delta, mode)
            c == NewCall("set_pos_rel", <<delta, mode>>)
        IN  /\ CanStart
            /\ nops' = nops + 1
            /\ IF target = <<>>
               THEN /\ offset' = offset
                    /\ call' = Returned(c, -1)
               ELSE IF r = "ok"
               THEN /\ offset' = target
                    /\ call' = Returned([c EXCEPT !.seeks = <<Sought(target, r)>>], 0)
               ELSE /\ offset' = offset
                    /\ call' = IF Caught(r)
                               THEN Returned([c EXCEPT !.seeks = <<Sought(target, r)>>], -1)
                               ELSE Thrown([c EXCEPT !.seeks = <<Sought(target, r)>>])
            /\ clean' = FALSE
            /\ out' = <<>>
            /\ UNCHANGED <<S, known_size, seekable, last_byte, pc, bcount, i, buf>>
            /\ UNCHANGED notInputVars

\* wavpack_input_push_back_byte that stores c whatever last_byte holds
wavpack_input_push_back_byte_Overwrite ==
    \E c \in PushValues :
        /\ CanStart
        /\ nops' = nops + 1
        /\ last_byte' = c
        /\ call' = Returned(NewCall("push_back_byte", c), c)
        /\ clean' = FALSE
        /\ out' = <<>>
        /\ UNCHANGED <<S, known_size, seekable, offset, pc, bcount, i, buf>>
        /\ UNCHANGED notInputVars

wavpack_input_push_back_byte ==
    \E c \in PushValues :
        /\ CanStart
        /\ nops' = nops + 1
        /\ IF last_byte = EOF
           THEN /\ last_byte' = c
                /\ call' = Returned(NewCall("push_back_byte", c), c)
           ELSE /\ last_byte' = last_byte
                /\ call' = Returned(NewCall("push_back_byte", c), EOF)
        /\ clean' = FALSE
        /\ out' = <<>>
        /\ UNCHANGED <<S, known_size, seekable, offset, pc, bcount, i, buf>>
        /\ UNCHANGED notInputVars

wavpack_input_get_length ==
    /\ CanStart
    /\ nops' = nops + 1
    /\ call' = Returned(NewCall("get_length", 0),
                        IF ~known_size THEN U64(0) ELSE ToUint32(GetSize))
    /\ UNCHANGED <<S, known_size, seekable, offset, last_byte, pc, bcount, i,
                   buf, out, clean>>
    /\ UNCHANGED notInputVars

wavpack_input_can_seek ==
    /\ CanStart
    /\ nops' = nops + 1
    /\ call' = Returned(NewCall("can_seek", 0), IF seekable THEN 1 ELSE 0)
    /\ UNCHANGED <<S, known_size, seekable, offset, last_byte, pc, bcount, i,
                   buf, out, clean>>
    /\ UNCHANGED notInputVars

-----------------------------------------------------------------------------
(* The adapter driven by libwavpack *)

\* no entry point of the plugin has been called
SessionIdle ==
    /\ env = [entry |-> "none"]
    /\ spc = "none"
    /\ obs = <<>>

\* parsePath has not been called
PathIdle ==
    /\ path = <<0>>
    /\ penv = [users |-> {}, conf |-> <<>>, euid |-> FALSE]
    /\ pres = [called |-> FALSE, path0 |-> <<>>, null |-> FALSE, str |-> <<>>]

\* no UPnPDirObject exists
UPnPIdle ==
    /\ obj = [m_id |-> "", m_pid |-> "", url |-> "", name |-> "",
              m_title |-> "", type |-> "UNKNOWN", item_class |-> "UNKNOWN",
              tag |-> ""]
    /\ uop = "none"

\* wavpack_decode has not been entered
DecodeIdle ==
    /\ dpc = "none"
    /\ can_seek = FALSE
    /\ fmt = [is_float |-> FALSE, bytes_per_sample |-> 2, channels |-> 2]
    /\ batches = <<>>
    /\ cmd = "NONE"
    /\ log = <<>>

\* constexpr WavpackInput(client, is): last_byte(EOF), on a stream just opened
InitInput ==
    /\ S \in Contents
    /\ known_size \in BOOLEAN
    /\ seekable \in BOOLEAN
    /\ offset = U64(0)
    /\ last_byte = EOF
    /\ pc = "idle"
    /\ bcount = U64(0)
    /\ i = 0
    /\ buf = <<>>
    /\ call = [op |-> "none", arg |-> 0, status |-> "returned", ret |-> 0,
               offset0 |-> U64(0), last_byte0 |-> EOF,
               results |-> <<>>, seeks |-> <<>>]
    /\ out = <<>>
    /\ clean = TRUE
    /\ nops = 0
    /\ DecodeIdle
    /\ SessionIdle
    /\ PathIdle
    /\ UPnPIdle

NextInput ==
    \/ ReadBytesBegin
    \/ ReadBytesIter
    \/ ReadBytesReturn
    \/ wavpack_input_get_pos
    \/ wavpack_input_set_pos_abs
    \/ wavpack_input_set_pos_rel
    \/ wavpack_input_push_back_byte
    \/ wavpack_input_get_length
    \/ wavpack_input_can_seek

SpecInput == InitInput /\ [][NextInput]_vars

-----------------------------------------------------------------------------
(* wavpack_decode: the collaborators *)

\* enum class DecoderCommand
Commands == {"NONE", "START", "STOP", "SEEK"}

\* what libwavpack reports about an opened file: WavpackGetMode() &
\* MODE_FLOAT, WavpackGetBytesPerSample(), WavpackGetReducedChannels()
Formats ==
    [is_float : {FALSE}, bytes_per_sample : 1..5, channels : {1, 2}]
    \cup [is_float : {TRUE}, bytes_per_sample : {4}, channels : {2}]

\* the sample counts WavpackUnpackSamples returns
BatchSizes == {0, 1, 256}
BatchLists == UNION {[1..n -> BatchSizes] : n \in 0..MaxBatches}

\* CheckAudioFormat(): it throws when the sample format is undefined
CheckAudioFormat(sample_format) ==
    IF sample_format = "UNDEFINED" THEN "throw" ELSE "ok"

\* AudioFormat::GetFrameSize(): the size of one sample times the channels
GetFrameSize(sample_format, channels) ==
    channels * (CASE sample_format = "S8" -> 1
                  [] sample_format = "S16" -> 2
                  [] OTHER -> 4)

\* one call made to the DecoderClient or to libwavpack: the function, a
\* value passed or returned, the DecoderCommand returned
Entry(f, v, r) == [f |-> f, v |-> v, r |-> r]

\* the number of calls of WavpackUnpackSamples so far
Unpacked == Cardinality({j \in DOMAIN log : log[j].f = "WavpackUnpackSamples"})

\* WavpackUnpackSamples(): the next batch; 0 at the end of the file
WavpackUnpackSamples ==
    IF Unpacked < Len(batches) THEN batches[Unpacked + 1] ELSE 0

-----------------------------------------------------------------------------
(* wavpack_decode *)

\* wavpack_bits_to_sample_format(), in a build without ENABLE_DSD
wavpack_bits_to_sample_format(is_float, bytes_per_sample) ==
    IF is_float THEN "FLOAT"
    ELSE CASE bytes_per_sample = 1 -> "S8"
           [] bytes_per_sample = 2 -> "S16"
           [] bytes_per_sample = 3 -> "S24_P32"
           [] bytes_per_sample = 4 -> "S32"
           [] OTHER -> "UNDEFINED"

sample_format == wavpack_bits_to_sample_format(fmt.is_float, fmt.bytes_per_sample)

\* const int output_sample_size = audio_format.GetFrameSize()
output_sample_size == GetFrameSize(sample_format, fmt.channels)

\* wavpack_decode from its entry to the head of the loop: the audio format
\* is checked, the client is told it is Ready, the first command is fetched
DecodeEntry ==
    /\ dpc = "entry"
    /\ IF CheckAudioFormat(sample_format) = "throw"
       THEN /\ dpc' = "thrown"
            /\ UNCHANGED <<cmd, log>>
       ELSE \E c \in Commands :
            /\ cmd' = c
            /\ log' = log \o <<Entry("Ready", IF can_seek THEN 1 ELSE 0, ""),
                               Entry("GetCommand", 0, c)>>
            /\ dpc' = "loop"
    /\ UNCHANGED <<can_seek, fmt, batches>>
    /\ UNCHANGED notDecodeVars

\* a loop that does not look at the command
LoopContinues_Always == TRUE

\* the condition of the while loop
LoopContinues == cmd # "STOP"

\* a SEEK command passed to libwavpack whatever can_seek says
SeekAllowed_Always == TRUE

\* the condition under which a SEEK command is passed to libwavpack
SeekAllowed == can_seek

\* the calls the handling of a pending command makes; ok is the result of
\* WavpackSeekSample
SeekCalls(ok) ==
    IF cmd = "SEEK"
    THEN IF SeekAllowed
         THEN IF ok
              THEN <<Entry("WavpackSeekSample", 1, ""), Entry("CommandFinished", 0, "")>>
              ELSE <<Entry("WavpackSeekSample", 0, ""), Entry("SeekError", 0, "")>>
         ELSE <<Entry("SeekError", 0, "")>>
    ELSE <<>>

\* DecodeIter that tests samples_got only after SubmitData
DecodeIter_SubmitEmpty ==
    /\ dpc = "loop"
    /\ IF ~LoopContinues
       THEN /\ dpc' = "returned"
            /\ UNCHANGED <<cmd, log>>
       ELSE \E ok \in (IF cmd = "SEEK" /\ SeekAllowed THEN BOOLEAN ELSE {TRUE}) :
            LET samples_got == WavpackUnpackSamples
                seen == log \o SeekCalls(ok)
                         \o <<Entry("WavpackUnpackSamples", samples_got, "")>>
            IN  \E c \in Commands :
                     /\ log' = Append(seen, Entry("SubmitData",
                                                  samples_got * output_sample_size, c))
                     /\ cmd' = c
                     /\ dpc' = IF samples_got = 0 THEN "returned" ELSE dpc
    /\ UNCHANGED <<can_seek, fmt, batches>>
    /\ UNCHANGED notDecodeVars

\* DecodeIter that leaves the loop when a seek has failed
DecodeIter_AbortOnSeekError ==
    /\ dpc = "loop"
    /\ IF ~LoopContinues
       THEN /\ dpc' = "returned"
            /\ UNCHANGED <<cmd, log>>
       ELSE \E ok \in (IF cmd = "SEEK" /\ SeekAllowed THEN BOOLEAN ELSE {TRUE}) :
            LET samples_got == WavpackUnpackSamples
                seen == log \o SeekCalls(ok)
                         \o <<Entry("WavpackUnpackSamples", samples_got, "")>>
            IN  IF cmd = "SEEK" /\ ~(SeekAllowed /\ ok)
                THEN /\ dpc' = "returned"
                     /\ log' = log \o SeekCalls(ok)
                     /\ UNCHANGED cmd
                ELSE IF samples_got = 0
                THEN /\ dpc' = "returned"
                     /\ log' = seen
                     /\ UNCHANGED cmd
                ELSE \E c \in Commands :
                     /\ log' = Append(seen, Entry("SubmitData",
                                                  samples_got * output_sample_size, c))
                     /\ cmd' = c
                     /\ UNCHANGED dpc
    /\ UNCHANGED <<can_seek, fmt, batches>>
    /\ UNCHANGED notDecodeVars

\* one evaluation of the loop condition, and one iteration of the loop if it
\* holds: decoding ends on STOP and when libwavpack delivers no samples
DecodeIter ==
    /\ dpc = "loop"
    /\ IF ~LoopContinues
       THEN /\ dpc' = "returned"
            /\ UNCHANGED <<cmd, log>>
       ELSE \E ok \in (IF cmd = "SEEK" /\ SeekAllowed THEN BOOLEAN ELSE {TRUE}) :
            LET samples_got == WavpackUnpackSamples
                seen == log \o SeekCalls(ok)
                         \o <<Entry("WavpackUnpackSamples", samples_got, "")>>
            IN  IF samples_got = 0
                THEN /\ dpc' = "returned"
                     /\ log' = seen
                     /\ UNCHANGED cmd
                ELSE \E c \in Commands :
                     /\ log' = Append(seen, Entry("SubmitData",
                                                  samples_got * output_sample_size, c))
                     /\ cmd' = c
                     /\ UNCHANGED dpc
    /\ UNCHANGED <<can_seek, fmt, batches>>
    /\ UNCHANGED notDecodeVars

\* no callback of the adapter runs while wavpack_decode is observed alone
InputIdle ==
    /\ S = <<>>
    /\ known_size = FALSE
    /\ seekable = FALSE
    /\ offset = U64(0)
    /\ last_byte = EOF
    /\ pc = "idle"
    /\ bcount = U64(0)
    /\ i = 0
    /\ buf = <<>>
    /\ call = [op |-> "none", arg |-> 0, status |-> "returned", ret |-> 0,
               offset0 |-> U64(0), last_byte0 |-> EOF,
               results |-> <<>>, seeks |-> <<>>]
    /\ out = <<>>
    /\ clean = TRUE
    /\ nops = 0

InitDecode ==
    /\ dpc = "entry"
    /\ can_seek \in BOOLEAN
    /\ fmt \in Formats
    /\ batches \in BatchLists
    /\ cmd = "NONE"
    /\ log = <<>>
    /\ InputIdle
    /\ SessionIdle
    /\ PathIdle
    /\ UPnPIdle

NextDecode ==
    \/ DecodeEntry
    \/ DecodeIter

SpecDecode == InitDecode /\ [][NextDecode]_vars

\* the decoder thread runs wavpack_decode to its end
FairSpecDecode == SpecDecode /\ WF_vars(NextDecode)

-----------------------------------------------------------------------------
(* The entry points: wavpack_streamdecode, wavpack_filedecode and
   wavpack_scan_file.  The calls they make to libwavpack and to the tag
   handler go to log, ahead of and behind the calls of wavpack_decode. *)

\* is.GetURI() of the stream being decoded; <<>> stands for nullptr
Uri == <<"a.wv">>

\* xstrcatdup(): the two strings in one
xstrcatdup(a, b) == a \o <<b>>

\* the total sample counts libwavpack reports; -1 is "unknown"
NumSamples == {-1, 0, 88200}

\* WavpackGetSampleRate()
SampleRate == 44100

\* what the stream entry point finds: the primary stream's seekability and
\* URI, the URIs that DecoderClient::OpenUri can open, the seekability of the
\* stream OpenUri returns, whether libwavpack opens the input
StreamEnvs ==
    {e \in [entry : {"stream"}, seekable : BOOLEAN, uri : {<<>>, Uri},
            openable : SUBSET {Uri, xstrcatdup(Uri, "c")},
            wvc_seekable : BOOLEAN, lib_opens : BOOLEAN, n_samples : {-1}] :
        e.uri = <<>> => e.openable = {} /\ ~e.wvc_seekable}

FileEnvs ==
    [entry : {"file"}, seekable : {TRUE}, uri : {<<>>}, openable : {{}},
     wvc_seekable : {FALSE}, lib_opens : BOOLEAN, n_samples : {-1}]

ScanEnvs ==
    [entry : {"scan"}, seekable : {TRUE}, uri : {<<>>}, openable : {{}},
     wvc_seekable : {FALSE}, lib_opens : BOOLEAN, n_samples : NumSamples]

\* the files the entry points decode: one whose format wavpack_decode
\* rejects and one it accepts, batches of 256 samples or none
SessionFormats == {f \in Formats : f.channels = 2 /\ f.bytes_per_sample \in {2, 5}}
SessionBatchLists == {b \in BatchLists : \A j \in DOMAIN b : b[j] \in {0, 256}}

\* DecoderClient::OpenUri(): a stream, or it throws std::runtime_error
OpenUri(u) == IF u \in env.openable THEN "stream" ELSE "runtime_error"

\* wavpack_open_wvc(): the stream of the companion file or nullptr; the
\* URI it opens is uri, wvc_url is built and freed
wavpack_open_wvc(uri) ==
    IF uri = <<>> THEN "nullptr"
    ELSE LET wvc_url == xstrcatdup(uri, "c")
         IN  IF Caught(OpenUri(uri)) THEN "nullptr" ELSE OpenUri(uri)

\* wvc->is.IsSeekable() while wvc holds no object: undefined behaviour, the
\* call yields some boolean or the process dies
NullIsSeekable == {"true", "false", "crash"}

\* WavpackOpenInput() and what follows it: it throws if libwavpack returns
\* nullptr, else the scope guard is set up and wavpack_decode is called
OpenInput(api, flags, wvc, cs) ==
    /\ obs' = [obs EXCEPT !.flags = flags, !.wvc = wvc, !.can_seek = cs]
    /\ IF env.lib_opens
       THEN /\ log' = Append(log, Entry(api, 1, ""))
            /\ spc' = "decoding"
            /\ dpc' = "entry"
            /\ can_seek' = cs
       ELSE /\ log' = Append(log, Entry(api, 0, ""))
            /\ spc' = "thrown"
            /\ UNCHANGED <<dpc, can_seek>>
    /\ UNCHANGED <<env, fmt, batches, cmd>>
    /\ UNCHANGED <<inputVars, pathVars, upnpVars>>

\* wavpack_streamdecode up to the call of wavpack_decode
wavpack_streamdecode ==
    /\ env.entry = "stream" /\ spc = "start"
    /\ LET open_flags == {"OPEN_DSD_FLAG", "OPEN_NORMALIZE"}
           is_wvc == wavpack_open_wvc(env.uri)
       IN  IF is_wvc = "nullptr"
           THEN OpenInput("WavpackOpenFileInputEx",
                          open_flags \cup (IF ~env.seekable
                                           THEN {"OPEN_STREAMING"} ELSE {}),
                          FALSE, env.seekable)
           ELSE \E ub \in NullIsSeekable :
                IF ub = "crash"
                THEN /\ spc' = "crashed"
                     /\ UNCHANGED <<env, obs, decodeVars>>
                     /\ UNCHANGED <<inputVars, pathVars, upnpVars>>
                ELSE LET cs == env.seekable /\ (ub = "true")
                     IN  OpenInput("WavpackOpenFileInputEx",
                                   open_flags \cup {"OPEN_WVC"}
                                       \cup (IF ~cs THEN {"OPEN_STREAMING"} ELSE {}),
                                   TRUE, cs)

\* wavpack_filedecode up to the call of wavpack_decode
wavpack_filedecode ==
    /\ env.entry = "file" /\ spc = "start"
    /\ OpenInput("WavpackOpenFileInput",
                 {"OPEN_DSD_FLAG", "OPEN_NORMALIZE", "OPEN_WVC"}, FALSE, TRUE)

\* a scope guard that runs only when the scope is left by return
ScopeExit_OnReturnOnly ==
    /\ spc = "decoding" /\ dpc \in {"returned", "thrown"}
    /\ log' = IF dpc = "returned"
              THEN Append(log, Entry("WavpackCloseFile", 0, "")) ELSE log
    /\ spc' = dpc
    /\ UNCHANGED <<env, obs, dpc, can_seek, fmt, batches, cmd>>
    /\ UNCHANGED <<inputVars, pathVars, upnpVars>>

\* AtScopeExit(wpc) in wavpack_streamdecode and wavpack_filedecode:
\* wavpack_decode has returned or thrown, WavpackCloseFile is called and the
\* entry point returns or lets the exception pass
ScopeExit ==
    /\ spc = "decoding" /\ dpc \in {"returned", "thrown"}
    /\ log' = Append(log, Entry("WavpackCloseFile", 0, ""))
    /\ spc' = dpc
    /\ UNCHANGED <<env, obs, dpc, can_seek, fmt, batches, cmd>>
    /\ UNCHANGED <<inputVars, pathVars, upnpVars>>

\* SongTime::FromScale(): milliseconds from a count at a rate
FromScale(n, rate) == (n * 1000) \div rate

\* GetDuration that knows no "unknown"
GetDuration_AlwaysKnown(n_samples) == FromScale(n_samples + 1, SampleRate)

\* GetDuration(): SignedSongTime::Negative(), here -1, if the sample count
\* is unknown
GetDuration(n_samples) ==
    IF n_samples = -1 THEN -1 ELSE FromScale(n_samples, SampleRate)

IsNegative(duration) == duration < 0

\* wavpack_scan_file
wavpack_scan_file ==
    /\ env.entry = "scan" /\ spc = "start"
    /\ IF ~env.lib_opens
       THEN /\ log' = Append(log, Entry("WavpackOpenFileInput", 0, ""))
            /\ spc' = "thrown"
            /\ obs' = [obs EXCEPT !.flags = {"OPEN_DSD_FLAG"}]
       ELSE LET duration == GetDuration(env.n_samples)
            IN  /\ log' = log \o <<Entry("WavpackOpenFileInput", 1, ""),
                                   Entry("WavpackGetNumSamples", env.n_samples, "")>>
                              \o (IF ~IsNegative(duration)
                                  THEN <<Entry("tag_handler_invoke_duration",
                                               duration, "")>>
                                  ELSE <<>>)
                              \o <<Entry("WavpackCloseFile", 0, "")>>
                /\ spc' = "returned"
                /\ obs' = [obs EXCEPT !.flags = {"OPEN_DSD_FLAG"}, !.ret = "true"]
    /\ UNCHANGED <<env, dpc, can_seek, fmt, batches, cmd>>
    /\ UNCHANGED <<inputVars, pathVars, upnpVars>>

InitSession ==
    /\ env \in StreamEnvs \cup FileEnvs \cup ScanEnvs
    /\ spc = "start"
    /\ obs = [flags |-> {}, wvc |-> FALSE, can_seek |-> FALSE, ret |-> "none"]
    /\ dpc = "none"
    /\ can_seek = FALSE
    /\ fmt \in SessionFormats
    /\ batches \in SessionBatchLists
    /\ cmd = "NONE"
    /\ log = <<>>
    /\ InputIdle
    /\ PathIdle
    /\ UPnPIdle

NextSession ==
    \/ wavpack_streamdecode
    \/ wavpack_filedecode
    \/ wavpack_scan_file
    \/ DecodeEntry
    \/ DecodeIter
    \/ ScopeExit

SpecSession == InitSession /\ [][NextSession]_vars

-----------------------------------------------------------------------------
(* parsePath (src/src/utils.c).  A C string is a sequence of character codes
   that ends with NUL; the character path[k] of the code is path[k + 1]. *)

MaxPath == 4

NUL == 0
Slash == 47
Tilde == 126
\* a letter of a user name
Letter == 117

\* the strings of at most n characters, each with its terminator
RECURSIVE Strings(_)
Strings(n) ==
    IF n = 0 THEN {<<NUL>>}
    ELSE Strings(n - 1) \cup
         {<<ch>> \o s : ch \in {Slash, Tilde, Letter},
                        s \in {t \in Strings(n - 1) : Len(t) = n}}

\* the characters of the C string that starts at s[k + 1], without the NUL
RECURSIVE CStr(_, _)
CStr(s, k) == IF s[k + 1] = NUL THEN <<>> ELSE <<s[k + 1]>> \o CStr(s, k + 1)

\* getpwnam(): the passwd entry of a user the system knows, with its pw_dir,
\* or NULL
getpwnam(name) ==
    IF name \in penv.users
    THEN [null |-> FALSE, pw_dir |-> <<Slash>> \o name]
    ELSE [null |-> TRUE, pw_dir |-> <<>>]

\* getpwuid(geteuid()): the passwd entry of the current user, or NULL
getpwuid ==
    IF penv.euid
    THEN [null |-> FALSE, pw_dir |-> <<Slash, Letter, Letter>>]
    ELSE [null |-> TRUE, pw_dir |-> <<>>]

\* for (c = path + 1; *c != '\0' && *c != '/'; c++);
RECURSIVE ScanName(_, _)
ScanName(s, c) == IF s[c + 1] \in {NUL, Slash} THEN c ELSE ScanName(s, c + 1)

\* return NULL
ReturnNull == [called |-> TRUE, path0 |-> path, null |-> TRUE, str |-> <<>>]
\* return newPath
ReturnPath(newPath) ==
    [called |-> TRUE, path0 |-> path, null |-> FALSE, str |-> newPath]

parsePath ==
    /\ ~pres.called
    /\ IF path[1] # Slash /\ path[1] # Tilde
       THEN /\ pres' = ReturnNull
            /\ UNCHANGED path
       ELSE IF path[1] = Tilde
       THEN IF path[2] = Slash \/ path[2] = NUL
            THEN LET passwd == IF penv.conf # <<>>
                               THEN getpwnam(penv.conf) ELSE getpwuid
                 IN  /\ pres' = IF passwd.null THEN ReturnNull
                                ELSE ReturnPath(passwd.pw_dir \o CStr(path, 1))
                     /\ UNCHANGED path
            ELSE LET c == ScanName(path, 1)
                     foundSlash == path[c + 1] = Slash
                     cut == IF foundSlash THEN [path EXCEPT ![c + 1] = NUL]
                                          ELSE path
                     pos == c
                     passwd == getpwnam(CStr(cut, 1))
                 IN  IF passwd.null
                     THEN /\ pres' = ReturnNull
                          /\ path' = cut
                     ELSE /\ path' = IF foundSlash
                                     THEN [cut EXCEPT ![c + 1] = Slash] ELSE cut
                          /\ pres' = ReturnPath(passwd.pw_dir \o CStr(path', pos))
       ELSE /\ pres' = ReturnPath(CStr(path, 0))
            /\ UNCHANGED path
    /\ UNCHANGED penv
    /\ UNCHANGED <<inputVars, decodeVars, sessionVars, upnpVars>>

\* the users getpwnam knows, the user param of the configuration (<<>> if
\* there is none), whether the current user has a passwd entry
PathEnvs == [users : {{}, {<<Letter>>}}, conf : {<<>>, <<Letter>>},
             euid : BOOLEAN]

InitPath ==
    /\ path \in Strings(MaxPath)
    /\ penv \in PathEnvs
    /\ pres = [called |-> FALSE, path0 |-> <<>>, null |-> FALSE, str |-> <<>>]
    /\ InputIdle
    /\ DecodeIdle
    /\ SessionIdle
    /\ UPnPIdle

NextPath == parsePath

SpecPath == InitPath /\ [][NextPath]_vars

-----------------------------------------------------------------------------
(* UPnPDirObject: a data holder whose fields the directory parser assigns,
   and clear() *)

\* enum class Type, enum class ItemClass
Types == {"UNKNOWN", "ITEM", "CONTAINER"}
ItemClasses == {"UNKNOWN", "MUSIC", "PLAYLIST"}

\* the values of a std::string field and of the Tag: empty or not
Texts == {"", "x"}
Tags == {"", "t"}

\* the objects there are
Objects ==
    [m_id : Texts, m_pid : Texts, url : Texts, name : Texts, m_title : Texts,
     type : Types, item_class : ItemClasses, tag : Tags]

\* UPnPDirObject() = default: the strings and the tag are empty, the two
\* enum members have no initializer and hold any value
Constructed ==
    {o \in Objects : /\ o.m_id = "" /\ o.m_pid = "" /\ o.url = ""
                     /\ o.name = "" /\ o.m_title = "" /\ o.tag = ""}

\* the parser stores a value in a field of the object
Assign ==
    /\ \E o \in Objects :
          /\ Cardinality({f \in DOMAIN obj : o[f] # obj[f]}) = 1
          /\ obj' = o
    /\ uop' = "assign"
    /\ UNCHANGED <<inputVars, decodeVars, sessionVars, pathVars>>

\* UPnPDirObject::clear()
clear ==
    /\ obj' = [obj EXCEPT !.m_id = "", !.m_pid = "", !.url = "",
                          !.type = "UNKNOWN", !.item_class = "UNKNOWN",
                          !.tag = ""]
    /\ uop' = "clear"
    /\ UNCHANGED <<inputVars, decodeVars, sessionVars, pathVars>>

InitUPnP ==
    /\ obj \in Constructed
    /\ uop = "none"
    /\ InputIdle
    /\ DecodeIdle
    /\ SessionIdle
    /\ PathIdle

NextUPnP ==
    \/ Assign
    \/ clear

SpecUPnP == InitUPnP /\ [][NextUPnP]_vars

-----------------------------------------------------------------------------
(* Properties of the adapter, checked under SpecInput *)

RECURSIVE SumSeq(_)
SumSeq(s) == IF s = <<>> THEN 0 ELSE Head(s) + SumSeq(Tail(s))

\* a ReadBytes call is observed, from its entry on
Reading == call.op = "read_bytes"
\* a ReadBytes call has returned and nothing was called since
HasRead == call.op = "read_bytes" /\ call.status = "returned"
\* a read of the stream returned 0 during the observed ReadBytes call
ReadZero == call.results # <<>> /\ call.results[Len(call.results)] = 0
\* the bytes the observed ReadBytes call gathered: the replayed byte and
\* what the reads of the stream returned
Gathered == (IF call.last_byte0 # EOF THEN 1 ELSE 0) + SumSeq(call.results)

\* C1: a ReadBytes call for count >= 1 bytes returns count, however small
\* the pieces are that the stream delivers, unless a read of the stream
\* returned 0; then it returns the number of bytes gathered so far, and it
\* reads the stream no more after the read that returned 0.
C1_ReadExact ==
    (Reading /\ call.arg >= 1) =>
        /\ call.status # "thrown"
        /\ \A j \in 1..Len(call.results) :
              call.results[j] = 0 => j = Len(call.results)
        /\ (HasRead /\ ~ReadZero) => call.ret = call.arg
        /\ (HasRead /\ ReadZero) =>
              call.ret = Gathered /\ call.ret < call.arg /\ Len(buf) = call.ret

\* C1, witness: two bytes were asked for, the stream delivered them in two
\* reads of one byte, and ReadBytes returned 2
C1_Witness ==
    HasRead /\ call.arg = 2 /\ call.results = <<1, 1>> /\ call.ret = 2

\* C2: as long as nothing was sought and nothing pushed back, the bytes the
\* ReadBytes calls returned so far, concatenated, are the bytes of the stream
\* from its start to its offset: none is lost, doubled or out of place; and a
\* ReadBytes call for at least one byte at the end of the stream returns 0.
C2_Concatenation ==
    clean =>
        /\ IsSmall(offset) /\ offset[1] <= Len(S)
        /\ pc = "idle" => out = SubSeq(S, 1, offset[1])
        /\ (HasRead /\ call.arg >= 1 /\ call.offset0 = U64(Len(S))) => call.ret = 0

\* C2, witness: a stream of MaxLen bytes was read to its end by more than one
\* call, the calls returned its content, and one more call for one byte
\* returned 0
C2_Witness ==
    /\ clean /\ nops >= 3 /\ Len(S) = MaxLen /\ out = S
    /\ HasRead /\ call.arg = 1 /\ call.offset0 = U64(Len(S)) /\ call.ret = 0

\* C3: a ReadBytes call for one byte that finds the byte b pushed back returns
\* 1, delivers b, leaves the slot empty and reads nothing from the stream.
C3_PushBackThenRead ==
    (Reading /\ call.arg = 1 /\ call.last_byte0 \in 0..255) =>
        /\ buf = <<call.last_byte0>>
        /\ last_byte = EOF
        /\ offset = call.offset0
        /\ call.results = <<>>
        /\ pc = "idle" => call.status = "returned" /\ call.ret = 1

\* C3, witness: push_back_byte(255) on a fresh adapter of a stream that holds
\* bytes, then at once ReadBytes for one byte, which has returned
C3_Witness ==
    /\ nops = 2 /\ HasRead /\ call.arg = 1 /\ call.last_byte0 = 255
    /\ S # <<>> /\ call.ret = 1 /\ buf = <<255>>

\* C4: push_back_byte(c) on a full slot returns EOF and leaves the slot as it
\* is; on an empty slot it stores c and returns c.  So one byte at most is
\* buffered.
C4_OnePushBack ==
    call.op = "push_back_byte" =>
        /\ call.status = "returned"
        /\ call.last_byte0 # EOF => call.ret = EOF /\ last_byte = call.last_byte0
        /\ call.last_byte0 = EOF => call.ret = call.arg /\ last_byte = call.arg

\* C4, witness: push_back_byte(255) while the slot held 0 was rejected
C4_Witness ==
    /\ call.op = "push_back_byte" /\ call.last_byte0 = 0 /\ call.arg = 255
    /\ call.ret = EOF /\ last_byte = 0

\* what holds right after a set_pos_abs call: one LockSeek(pos), no
\* exception, 0 and the new position on success, -1 and the old position
\* when the seek threw
C5_Here ==
    call.op = "set_pos_abs" =>
        /\ call.status = "returned"
        /\ Len(call.seeks) = 1 /\ call.seeks[1].to = call.arg
        /\ call.seeks[1].r = "ok" => call.ret = 0 /\ GetPosition = call.arg
        /\ call.seeks[1].r # "ok" =>
              call.ret = -1 /\ GetPosition = ToUint32(call.offset0)
\* what a get_pos call returns that follows a set_pos_abs call
C5_Next ==
    (call.op = "set_pos_abs" /\ call'.op = "get_pos") =>
        /\ call.ret = 0 => call'.ret = call.arg
        /\ call.ret # 0 => call'.ret = ToUint32(call.offset0)

\* C5: set_pos_abs(pos) calls LockSeek(pos) once and no exception leaves it.
\* If the seek succeeded it returns 0 and the position get_pos reports is
\* pos; if the seek threw it returns -1 and the position get_pos reports is
\* the one from before the call.  A get_pos call that follows returns just
\* that.
C5_SetAbsolutePosition == []C5_Here /\ [][C5_Next]_vars

\* C5, witness: get_pos returned 2^32-1 right after set_pos_abs(2^32-1)
\* succeeded on a fresh adapter
C5_Witness ==
    /\ nops = 2 /\ call.op = "get_pos"
    /\ offset = <<Limb - 1, Limb - 1, 0, 0>> /\ call.ret = offset

\* C6: set_pos_rel(delta, SEEK_END) on a stream of unknown size returns -1,
\* calls no LockSeek and leaves the offset of the stream as it is.
C6_FromEndUnknownSize ==
    (call.op = "set_pos_rel" /\ call.arg[2] = SEEK_END /\ ~known_size) =>
        /\ call.status = "returned"
        /\ call.ret = -1
        /\ call.seeks = <<>>
        /\ offset = call.offset0

\* C6, witness: the stream is seekable, its size unknown, its offset not 0,
\* and set_pos_rel(-1, SEEK_END) failed
C6_Witness ==
    /\ call.op = "set_pos_rel" /\ call.arg = <<-1, SEEK_END>>
    /\ ~known_size /\ seekable /\ call.offset0 # U64(0)
    /\ call.ret = -1 /\ offset = call.offset0

\* the mode of the observed set_pos_rel call names an origin the stream has
RelValid ==
    \/ call.arg[2] \in {SEEK_SET, SEEK_CUR}
    \/ call.arg[2] = SEEK_END /\ known_size
\* that origin: the start, the offset at the call, the size
RelBase ==
    CASE call.arg[2] = SEEK_SET -> U64(0)
      [] call.arg[2] = SEEK_CUR -> call.offset0
      [] OTHER -> GetSize
\* a < b, for 64 bit values
U64Less(a, b) ==
    \E k \in 1..4 : a[k] < b[k] /\ \A j \in (k+1)..4 : a[j] = b[j]
\* to is base + delta modulo 2^64
RelCongruent(to, base, delta) == U64Sub(to, FromInt32(delta)) = base
\* to is base + delta: going forward does not end below base, going back
\* ends below base
RelExact(to, base, delta) ==
    /\ RelCongruent(to, base, delta)
    /\ delta >= 0 => ~U64Less(to, base)
    /\ delta < 0 => U64Less(to, base)
\* set_pos_rel returns 0 exactly when its one LockSeek succeeded, which moves
\* the stream there; it returns -1 when LockSeek threw, which moves nothing
RelOutcome ==
    /\ call.status = "returned"
    /\ Len(call.seeks) = 1
    /\ call.seeks[1].r = "ok" => call.ret = 0 /\ offset = call.seeks[1].to
    /\ call.seeks[1].r # "ok" => call.ret = -1 /\ offset = call.offset0

\* C7, as claimed: set_pos_rel(delta, mode) seeks to the target delta,
\* offset + delta or size + delta, for every delta.
C7_Original ==
    (call.op = "set_pos_rel" /\ RelValid) =>
        /\ RelOutcome
        /\ RelExact(call.seeks[1].to, RelBase, call.arg[1])

\* C7, amended: set_pos_rel(delta, mode) calls LockSeek once, with the target
\* (delta, offset + delta or size + delta) reduced modulo 2^64, which is the
\* target itself when that is not negative; it returns 0 if this seek
\* succeeded and -1 if it threw.  For a mode that is none of the three it
\* returns -1 without a seek.
C7_RelativeSeek ==
    call.op = "set_pos_rel" =>
        IF RelValid
        THEN LET to == call.seeks[1].to
                 delta == call.arg[1]
                 t == RelBase[1] + delta
             IN  /\ RelOutcome
                 /\ RelCongruent(to, RelBase, delta)
                 /\ (IsSmall(RelBase) /\ delta \in -Limb..Limb /\ t >= 0) =>
                       to = <<t % Limb, t \div Limb, 0, 0>>
                 /\ (IsSmall(RelBase) /\ delta \in -Limb..Limb /\ t < 0) =>
                       to = <<Limb + t, Limb - 1, Limb - 1, Limb - 1>>
        ELSE /\ call.status = "returned"
             /\ call.seeks = <<>>
             /\ call.ret = -1
             /\ offset = call.offset0

\* C7, witness: set_pos_rel(-1, SEEK_END) on a stream of MaxLen bytes went
\* to the offset MaxLen - 1
C7_Witness ==
    /\ call.op = "set_pos_rel" /\ call.arg = <<-1, SEEK_END>>
    /\ known_size /\ Len(S) = MaxLen /\ call.offset0 # U64(MaxLen - 1)
    /\ call.ret = 0 /\ offset = U64(MaxLen - 1)

-----------------------------------------------------------------------------
(* Properties of wavpack_decode, checked under SpecDecode or FairSpecDecode *)

IsSubmit(e) == e.f = "SubmitData"
\* the sizes of the SubmitData calls so far, in their order
Submitted == [j \in DOMAIN SelectSeq(log, IsSubmit) |-> SelectSeq(log, IsSubmit)[j].v]
\* the batches ahead of the first empty one
RECURSIVE NonEmptyPrefix(_)
NonEmptyPrefix(b) ==
    IF b = <<>> \/ Head(b) = 0 THEN <<>> ELSE <<Head(b)>> \o NonEmptyPrefix(Tail(b))
\* the host has sent no STOP
NoStop == \A j \in DOMAIN log : log[j].r # "STOP"
\* wavpack_decode is over
DecodeOver == dpc \in {"returned", "thrown"}

\* what holds when wavpack_decode has returned without a STOP, and that no
\* exception leaves the loop
C8_Returned ==
    /\ (dpc = "returned" /\ NoStop) =>
          Submitted = [j \in DOMAIN NonEmptyPrefix(batches) |->
                          NonEmptyPrefix(batches)[j] * output_sample_size]
    /\ log # <<>> => dpc # "thrown"

\* C8: wavpack_decode comes to an end; if the host sent no STOP it has then
\* called SubmitData once for each batch ahead of the first empty batch, in
\* their order, and has returned; no exception leaves the loop.
C8_DecodeTermination == []C8_Returned /\ <>DecodeOver

\* C8, witness: libwavpack delivered the batches 256, 256, 0, the host sent
\* no STOP, and wavpack_decode returned after two SubmitData calls
C8_Witness ==
    /\ dpc = "returned" /\ NoStop /\ batches = <<256, 256, 0>>
    /\ Len(Submitted) = 2

\* C9: a STOP from the host, be it the first command or the one SubmitData
\* returned, is the last thing that happens in wavpack_decode: no
\* WavpackUnpackSamples and no SubmitData follows it.
C9_StopEndsDecoding ==
    \A j \in DOMAIN log : log[j].r = "STOP" => j = Len(log)

\* C9, witness: wavpack_decode returned on a STOP that SubmitData returned,
\* with a batch left that it did not ask for
C9_Witness ==
    /\ dpc = "returned" /\ log[Len(log)].f = "SubmitData" /\ log[Len(log)].r = "STOP"
    /\ Unpacked < Len(batches) /\ batches[Unpacked + 1] # 0

\* C10: WavpackSeekSample is called only for a SEEK command and only if
\* can_seek holds; if can_seek does not hold, a SEEK command is answered by
\* SeekError at once.
C10_SeekNeedsCanSeek ==
    /\ \A j \in DOMAIN log : log[j].f = "WavpackSeekSample" =>
          can_seek /\ j > 1 /\ log[j-1].r = "SEEK"
    /\ ~can_seek => \A j \in 1..(Len(log) - 1) :
          log[j].r = "SEEK" => log[j+1].f = "SeekError"

\* C10, witness: can_seek is false and a SEEK that SubmitData returned was
\* answered by SeekError
C10_Witness ==
    /\ ~can_seek
    /\ \E j \in 1..(Len(log) - 1) :
          log[j].f = "SubmitData" /\ log[j].r = "SEEK" /\ log[j+1].f = "SeekError"

\* the answers to the command log[j]: the CommandFinished and SeekError calls
\* between it and the next WavpackUnpackSamples
RECURSIVE Answers(_)
Answers(j) ==
    IF j + 1 > Len(log) \/ log[j+1].f = "WavpackUnpackSamples" THEN 0
    ELSE (IF log[j+1].f \in {"CommandFinished", "SeekError"} THEN 1 ELSE 0)
         + Answers(j + 1)

\* C11: a failed seek does not end the decoding: SeekError is followed by the
\* request for the next batch of samples, which is submitted if it is not
\* empty, and no exception is raised; every SEEK command the loop has taken
\* up is answered by exactly one of CommandFinished and SeekError, none is
\* left unanswered when wavpack_decode returns, and nothing else is answered.
C11_SeekErrorGoesOn ==
    /\ \A j \in DOMAIN log : log[j].f = "SeekError" =>
          /\ j < Len(log) /\ log[j+1].f = "WavpackUnpackSamples"
          /\ log[j+1].v # 0 =>
                /\ j + 2 <= Len(log) /\ log[j+2].f = "SubmitData"
                /\ log[j+2].v = log[j+1].v * output_sample_size
          /\ dpc # "thrown"
    /\ \A j \in DOMAIN log : log[j].r = "SEEK" =>
          IF j < Len(log) THEN Answers(j) = 1 ELSE dpc = "loop"
    /\ \A k \in DOMAIN log : log[k].f \in {"CommandFinished", "SeekError"} =>
          /\ k > 1
          /\ \/ log[k-1].r = "SEEK"
             \/ log[k-1].f = "WavpackSeekSample" /\ k > 2 /\ log[k-2].r = "SEEK"

\* C11, witness: can_seek holds, WavpackSeekSample failed, SeekError was
\* reported, and the next batch was asked for and submitted
C11_Witness ==
    \E j \in 1..(Len(log) - 3) :
        /\ log[j].r = "SEEK"
        /\ log[j+1] = Entry("WavpackSeekSample", 0, "")
        /\ log[j+2].f = "SeekError"
        /\ log[j+3].f = "WavpackUnpackSamples" /\ log[j+3].v # 0
        /\ j + 4 <= Len(log) /\ log[j+4].f = "SubmitData"

\* wavpack_streamdecode has got a stream from wavpack_open_wvc and is past
\* the lines that follow
CompanionOpened ==
    env.entry = "stream" /\ spc # "start" /\ wavpack_open_wvc(env.uri) # "nullptr"

\* C12: when wavpack_open_wvc returned a stream, wavpack_streamdecode goes on
\* to the open call, passes the companion adapter, and the can_seek it uses
\* for OPEN_STREAMING, for Ready and for the seeks is the primary stream's
\* IsSeekable() and the companion stream's IsSeekable().
C12_CompanionCanSeek ==
    CompanionOpened =>
        /\ spc # "crashed"
        /\ obs.wvc /\ "OPEN_WVC" \in obs.flags
        /\ obs.can_seek = (env.seekable /\ env.wvc_seekable)
        /\ ("OPEN_STREAMING" \in obs.flags) = ~obs.can_seek
        /\ dpc # "none" => can_seek = obs.can_seek
        /\ \A j \in DOMAIN log : log[j].f = "Ready" =>
              log[j].v = (IF env.seekable /\ env.wvc_seekable THEN 1 ELSE 0)

\* the stream has no URI, or OpenUri throws for the companion file's URI
CompanionFails ==
    env.uri = <<>> \/ Caught(OpenUri(xstrcatdup(env.uri, "c")))

\* C13: if the companion file's URI cannot be opened, be it that the stream
\* has no URI or that the open throws, wavpack_streamdecode raises no error
\* for that: it goes on to the open call, passes no companion adapter and no
\* OPEN_WVC, and its can_seek is the primary stream's IsSeekable().
C13_CompanionOpenFails ==
    (env.entry = "stream" /\ spc # "start" /\ CompanionFails) =>
        /\ spc # "crashed"
        /\ spc = "thrown" => ~env.lib_opens \/ dpc = "thrown"
        /\ ~obs.wvc /\ "OPEN_WVC" \notin obs.flags
        /\ obs.can_seek = env.seekable
        /\ ("OPEN_STREAMING" \in obs.flags) = ~env.seekable
        /\ dpc # "none" => can_seek = env.seekable

\* the number of calls of f in log that returned v
Calls(f, v) == Cardinality({j \in DOMAIN log : log[j].f = f /\ log[j].v = v})
\* the handles libwavpack has opened, the open calls that failed, the
\* handles closed
Opens == Calls("WavpackOpenFileInputEx", 1) + Calls("WavpackOpenFileInput", 1)
FailedOpens == Calls("WavpackOpenFileInputEx", 0) + Calls("WavpackOpenFileInput", 0)
Closes == Calls("WavpackCloseFile", 0)
\* the entry point is over: it has returned or an exception has left it
EntryOver == spc \in {"returned", "thrown"}

\* C14: in wavpack_streamdecode, wavpack_filedecode and wavpack_scan_file a
\* handle that libwavpack opened is closed once, as the last call before the
\* entry point is left, be it by return (end of file, STOP) or by an
\* exception out of wavpack_decode, and not while it is in use; if the open
\* fails there is no WavpackCloseFile, no Ready and no SubmitData.
C14_HandleClosedOnce ==
    /\ Opens + FailedOpens <= 1 /\ Closes <= Opens
    /\ EntryOver => /\ Closes = Opens
                    /\ Opens = 1 => log[Len(log)].f = "WavpackCloseFile"
    /\ ~EntryOver => Closes = 0
    /\ FailedOpens = 1 =>
          /\ spc = "thrown" /\ Closes = 0
          /\ \A j \in DOMAIN log : log[j].f \notin {"Ready", "SubmitData"}

\* C14, witness: wavpack_decode threw for an audio format it does not
\* support, and the handle was closed as the exception left the entry point
C14_Witness ==
    /\ spc = "thrown" /\ dpc = "thrown" /\ Opens = 1 /\ Closes = 1

\* the positions in log of the calls of f
CallsOf(f) == {j \in DOMAIN log : log[j].f = f}

\* C16: wavpack_scan_file, when libwavpack opens the file, returns true; it
\* has then called the tag handler's duration function once, with the
\* duration of the samples at the sample rate, if libwavpack knows the
\* number of samples, and not at all if it does not; it never calls
\* WavpackUnpackSamples.
C16_ScanDuration ==
    env.entry = "scan" =>
        /\ CallsOf("WavpackUnpackSamples") = {}
        /\ (spc # "start" /\ env.lib_opens) =>
              /\ spc = "returned" /\ obs.ret = "true"
              /\ Cardinality(CallsOf("tag_handler_invoke_duration"))
                     = (IF env.n_samples = -1 THEN 0 ELSE 1)
              /\ \A j \in CallsOf("tag_handler_invoke_duration") :
                     log[j].v = (env.n_samples * 1000) \div SampleRate
        /\ ~env.lib_opens => CallsOf("tag_handler_invoke_duration") = {}

\* C16, witness: the scan of a file of 88200 samples at 44100 Hz returned
\* true and reported two seconds
C16_Witness ==
    /\ env.entry = "scan" /\ spc = "returned" /\ env.n_samples = 88200
    /\ \E j \in DOMAIN log : log[j] = Entry("tag_handler_invoke_duration", 2000, "")

\* C16, the other case: the sample count is unknown and the scan returned
\* true without a call of the tag handler
C16_UnknownWitness ==
    /\ env.entry = "scan" /\ spc = "returned" /\ env.n_samples = -1
    /\ obs.ret = "true" /\ CallsOf("tag_handler_invoke_duration") = {}

\* C15: wavpack_input_get_pos returns the stream's offset, whatever 64 bit
\* value the offset has, and changes neither the offset nor last_byte.
C15_GetPositionExact ==
    call.op = "get_pos" =>
        /\ call.status = "returned" /\ call.ret = call.offset0
        /\ offset = call.offset0
        /\ last_byte = call.last_byte0

\* C17: ReadBytes for count >= 0 bytes, with last_byte empty or full, returns
\* r with 0 <= r <= count and has put r bytes into the buffer; for count 0
\* with a byte in last_byte it returns 0, puts nothing into the buffer and
\* does not read the stream.
C17_ReadWithinCount ==
    Reading =>
        /\ Len(buf) <= call.arg
        /\ HasRead => 0 <= call.ret /\ call.ret <= call.arg /\ Len(buf) = call.ret
        /\ (call.arg = 0 /\ call.last_byte0 # EOF) =>
              /\ buf = <<>> /\ call.results = <<>>
              /\ HasRead => call.ret = 0

\* the observed callback is one of the two seeks
Seeking == call.op \in {"set_pos_abs", "set_pos_rel"}

\* a seek leaves last_byte as it found it; a ReadBytes call that finds a byte
\* in last_byte delivers it first, and behind it the bytes of the stream from
\* the offset the call found
C18_Kept ==
    /\ Seeking => last_byte = call.last_byte0
    /\ (Reading /\ call.arg >= 1 /\ call.last_byte0 # EOF) =>
          /\ buf # <<>> /\ Head(buf) = call.last_byte0 % 256
          /\ IsSmall(call.offset0) =>
                Tail(buf) = SubSeq(S, call.offset0[1] + 1,
                                   call.offset0[1] + SumSeq(call.results))

\* the ReadBytes call that comes next after a seek finds the byte that was in
\* last_byte when the seek returned
C18_ReadAfterSeek ==
    (Seeking /\ last_byte # EOF /\ call'.op = "read_bytes" /\ call'.arg >= 1) =>
        /\ call'.last_byte0 = last_byte /\ call'.offset0 = offset
        /\ buf' = <<last_byte % 256>>

\* C18: set_pos_abs and set_pos_rel do not change last_byte, whether the seek
\* succeeds or fails: a byte pushed back ahead of the seek is in last_byte
\* after it, and the next ReadBytes call returns it first, ahead of the bytes
\* at the stream's new offset.
C18_SeekKeepsPushBack == []C18_Kept /\ [][C18_ReadAfterSeek]_vars

\* C18, witness: push_back_byte(255), then a seek to offset 1 that succeeded,
\* and 255 is in last_byte
C18_Witness ==
    /\ nops = 2 /\ call.op = "set_pos_abs" /\ call.ret = 0
    /\ call.last_byte0 = 255 /\ last_byte = 255
    /\ call.offset0 = U64(0) /\ offset = U64(1)

\* C18, the read that follows: a byte was in last_byte, the stream was at
\* offset 1, and ReadBytes for two bytes returned that byte and the stream's
\* second byte
C18_ReadWitness ==
    /\ nops = 3 /\ HasRead /\ call.arg = 2 /\ call.last_byte0 = 255
    /\ call.offset0 = U64(1) /\ Len(S) = 2 /\ buf = <<255, S[2]>>

\* C19: parsePath leaves the caller's string as it was on every return, the
\* returns of NULL too: the '/' behind ~user that is replaced by NUL for the
\* lookup of the user is put back when the user is found and when it is not.
C19_PathUnchanged == pres.called => path = pres.path0

\* an object whose fields are all reset
Reset ==
    [m_id |-> "", m_pid |-> "", url |-> "", name |-> "", m_title |-> "",
     type |-> "UNKNOWN", item_class |-> "UNKNOWN", tag |-> ""]

\* C20: after clear() every field of the object has its reset value: m_id,
\* m_pid, url, name and m_title are empty, type and item_class are UNKNOWN
\* and the tag is empty, whatever the fields held before.
C20_ClearResetsAll == uop = "clear" => obj = Reset

=============================================================================
